---- MODULE Spec2Model ----
(***************************************************************************)
(* A model of the vglog logger: the severity gate, the scratch-buffer      *)
(* pool, the rotating file sinks (a bufio.Writer over an os.File) and the  *)
(* logger that cascades every record into the per-severity sinks.          *)
(*                                                                         *)
(* Bytes are modelled one token per byte.  A record is one header token    *)
(* <<"h", c, k>> followed by the message tokens <<"m", c, k>> of call k of *)
(* caller c; the banner is BannerLen tokens <<"B", 0, 0>>.  The only       *)
(* failure of the environment that is modelled is os.OpenFile failing      *)
(* (the directory is not writable); a write to an open file succeeds, a    *)
(* write to a closed file fails.                                           *)
(***************************************************************************)
EXTENDS Integers, Sequences, FiniteSets, TLC

\* ------------------------------------------------------------------ bounds
\* NCallers goroutines log; together they start at most MaxCalls calls, and
\* the other goroutines (configuration, manual Flush, the flush daemon, the
\* environment) take at most MaxEnv steps.  BannerLen, BufSize and PoolCap
\* scale down the banner's length, bufferSize and putBuffer's cap of 512.
NCallers == 2
MaxCalls == 2
MaxEnv == 2
BannerLen == 1
BufSize == 2
PoolCap == 3
MaxMsg == 2

\* --------------------------------------------------------- program constants
SeverityDebug == 0
SeverityInfo == 1
SeverityWarning == 2
SeverityError == 3
severityCount == 4
DefaultMaxSize == 4194304

Severities == SeverityDebug .. (severityCount - 1)
Callers == 1 .. NCallers
Buffers == 1 .. (MaxCalls + NCallers)
MsgLens == 1 .. MaxMsg
Dirs == {"./log/", "log", "alt"}
LogNames == {"app", "alt"}
MaxSizes == {0, BannerLen + 3, BannerLen + 5}

\* convDirAbs: the directory joined to the directory of the executable and
\* cleaned, so that "./log/" and "log" are the same directory.
convDirAbs(dir) == IF dir \in {"./log/", "log"} THEN "/wd/log" ELSE "/wd/alt"

DefaultDir == convDirAbs("./log/")
DefaultName == "app"
NoFile == <<>>
NoBuf == 0
Free == 0

Banner == [i \in 1 .. BannerLen |-> <<"B", 0, 0>>]

\* The bytes of the record of call k of caller c: header, then message.
Msg(c, k, m) == [i \in 1 .. m |-> <<"m", c, k>>]

\* --------------------------------------------------------------- the disk
\* disk maps the name of every file ever created to its bytes.
FileName(dir, base, tag, t) == <<dir, base, tag, t>>

DiskAppend(disk, name, p) == [disk EXCEPT ![name] = @ \o p]

DiskCreate(disk, name) == IF name \in DOMAIN disk THEN disk ELSE disk @@ (name :> <<>>)

\* ------------------------------------------------------------ bufio.Writer
\* A sink value: file is sb.file (NoFile is nil); wr, wrOpen, wbuf, werr are
\* the bufio.Writer: the file its handle was opened on, whether that handle
\* is still open, the buffered bytes and the sticky error.
\* acc is the history of the bytes accepted for the file the Writer was
\* opened on, base the length that file had when it was opened.
NilSink == [alloc |-> FALSE, sev |-> 0, file |-> NoFile, wr |-> NoFile,
            wrOpen |-> FALSE, wbuf |-> <<>>, werr |-> FALSE, nbytes |-> 0,
            acc |-> <<>>, base |-> 0]

NewSink(s) == [NilSink EXCEPT !.alloc = TRUE, !.sev = s]

\* bufio.Writer.Flush on the context x = [sb, disk, ...]: x.err is its error.
WriterFlush(x) ==
    IF x.sb.werr THEN [x EXCEPT !.err = TRUE]
    ELSE IF Len(x.sb.wbuf) = 0 THEN [x EXCEPT !.err = FALSE]
    ELSE IF x.sb.wrOpen
         THEN [x EXCEPT !.disk = DiskAppend(x.disk, x.sb.wr, x.sb.wbuf),
                        !.sb.wbuf = <<>>, !.err = FALSE]
         ELSE [x EXCEPT !.sb.werr = TRUE, !.err = TRUE]

\* bufio.Writer.Write(p): x.n counts the bytes accepted.
RECURSIVE WriterWriteLoop(_, _)
WriterWriteLoop(x, p) ==
    LET avail == BufSize - Len(x.sb.wbuf) IN
    IF Len(p) > avail /\ ~x.sb.werr
    THEN IF Len(x.sb.wbuf) = 0
         THEN \* large write, empty buffer: written to the file directly
              IF x.sb.wrOpen
              THEN WriterWriteLoop([x EXCEPT !.disk = DiskAppend(x.disk, x.sb.wr, p),
                                             !.n = @ + Len(p)], <<>>)
              ELSE WriterWriteLoop([x EXCEPT !.sb.werr = TRUE], p)
         ELSE LET y == [x EXCEPT !.sb.wbuf = @ \o SubSeq(p, 1, avail), !.n = @ + avail]
              IN WriterWriteLoop(WriterFlush(y), SubSeq(p, avail + 1, Len(p)))
    ELSE IF x.sb.werr THEN [x EXCEPT !.err = TRUE]
    ELSE [x EXCEPT !.sb.wbuf = @ \o p, !.n = @ + Len(p), !.err = FALSE]

WriterWrite(x, p) == WriterWriteLoop([x EXCEPT !.n = 0], p)

\* -------------------------------------------------------------- syncBuffer
\* Logger.getLogName, getLogDir, getMaxSize: the lazily set defaults.
getLogName(x) == IF x.logName = "" THEN [x EXCEPT !.logName = DefaultName] ELSE x

getLogDir(x) == IF x.logDir = "" THEN [x EXCEPT !.logDir = DefaultDir] ELSE x

getMaxSize(x) == IF x.maxSize = 0 THEN [x EXCEPT !.maxSize = DefaultMaxSize] ELSE x

\* The handle os.OpenFile returns for the file name: a handle is told from
\* the others on the same file by the length the file had when it was opened.
Handle(disk, name) == <<name, Len(disk[name])>>

\* syncBuffer.create: the name is built (logName), the directory made and the
\* file opened for append; ok is whether os.OpenFile succeeds.  On success
\* sb.file is the new file and its handle is open, otherwise sb.file is nil.
create(x, t, ok) ==
    LET y == getLogDir(getLogName(x))
        name == FileName(y.logDir, y.logName, y.sb.sev, t)
    IN IF ok THEN [y EXCEPT !.disk = DiskCreate(y.disk, name), !.sb.file = name,
                            !.openFiles = @ \cup {Handle(DiskCreate(y.disk, name), name)},
                            !.err = FALSE]
       ELSE [y EXCEPT !.sb.file = NoFile, !.err = TRUE]

\* os.File.Close of sb.file, the handle the Writer wraps.  closes records, at
\* each close, the bytes accepted for the file and the bytes the file got.
FileClose(x) ==
    [x EXCEPT !.sb.wrOpen = FALSE,
              !.openFiles = @ \ {<<x.sb.wr, x.sb.base>>},
              !.closes = @ \cup {[accepted |-> x.sb.acc,
                                  infile |-> SubSeq(x.disk[x.sb.wr], x.sb.base + 1,
                                                    Len(x.disk[x.sb.wr]))]}]

\* rotateFile, first part: flush and close the file that is open.
CloseOldNoFlush(x) == IF x.sb.file # NoFile THEN FileClose(x) ELSE x

CloseOld(x) == IF x.sb.file # NoFile THEN FileClose(WriterFlush(x)) ELSE x

\* syncBuffer.rotateFile(now); x.err is its error.
rotateFile(x, t, ok) ==
    LET y == [create(CloseOld(x), t, ok) EXCEPT !.sb.nbytes = 0] IN
    IF y.err THEN y
    ELSE [y EXCEPT !.sb.wr = y.sb.file, !.sb.wrOpen = TRUE, !.sb.wbuf = <<>>,
                   !.sb.werr = FALSE, !.sb.base = Len(y.disk[y.sb.file]),
                   !.sb.acc = Banner,
                   !.disk = DiskAppend(y.disk, y.sb.file, Banner),
                   !.sb.nbytes = Len(Banner), !.err = FALSE]

\* The rotation test of syncBuffer.Write.
NeedRotateGt(nbytes, n, max) == nbytes + n > max

NeedRotate(nbytes, n, max) == nbytes + n >= max

\* syncBuffer.Write(p) at time t.  lastWrite records the call for the checks.
Write(x, p, t, ok) ==
    LET m == getMaxSize(x)
        rot == NeedRotate(m.sb.nbytes, Len(p), m.maxSize)
        r == IF rot THEN rotateFile(m, t, ok) ELSE m
        w == WriterWrite(r, p)
    IN [w EXCEPT !.sb.nbytes = @ + w.n,
                 !.sb.acc = @ \o SubSeq(p, 1, w.n),
                 !.lastWrite = [sev |-> x.sb.sev, pre |-> x.sb.nbytes, len |-> Len(p),
                                max |-> m.maxSize, rotated |-> rot,
                                created |-> rot /\ ok,
                                wasOpen |-> x.sb.file # NoFile,
                                post |-> w.sb.nbytes + w.n]]

\* syncBuffer.Flush (the embedded Writer's) then syncBuffer.Sync, as flushAll
\* calls them; both errors are ignored.  Sync changes nothing modelled here
\* (on a nil sb.file it returns os.ErrInvalid).
SyncOnly(x) == x

FlushSync(x) == WriterFlush(x)

\* ------------------------------------------------------------ bufferPool
\* The pool P = [freeList, next, data, nAlloc]: bufferPool.freeList, every
\* buffer's next and bytes, and the number of buffers allocated so far.
\* b.Reset() of getBuffer.
ResetKeepData(data, b) == data

Reset(data, b) == [data EXCEPT ![b] = <<>>]

\* getBuffer: the head of the free list is unlinked under bp.mtx, then its
\* next is cleared and it is reset; with an empty list a buffer is allocated.
\* Yields the pool after, and the buffer as .got.
getBuffer(P) ==
    IF P.freeList # NoBuf
    THEN [freeList |-> P.next[P.freeList],
          next |-> [P.next EXCEPT ![P.freeList] = NoBuf],
          data |-> Reset(P.data, P.freeList),
          nAlloc |-> P.nAlloc, got |-> P.freeList]
    ELSE [freeList |-> P.freeList, next |-> P.next, data |-> P.data,
          nAlloc |-> P.nAlloc + 1, got |-> P.nAlloc + 1]

\* putBuffer: a buffer of PoolCap bytes or more is dropped, any other is
\* linked at the head of the free list.
putBufferAnySize(P, b) == [P EXCEPT !.next[b] = P.freeList, !.freeList = b]

putBuffer(P, b) ==
    IF Len(P.data[b]) >= PoolCap THEN P
    ELSE [P EXCEPT !.next[b] = P.freeList, !.freeList = b]

\* ------------------------------------------------------------------ state
VARIABLES
    severityLimit,  \* Logger.severityLimit, read and written atomically
    file,           \* Logger.file: the sink of each severity (alloc: non-nil)
    maxSize,        \* Logger.maxSize
    logDir,         \* Logger.logDir
    logName,        \* Logger.logName
    mu,             \* Logger.mu: Free, or the caller that locked it
    disk,           \* the bytes of every file created
    console,        \* the bytes written to os.Stderr
    now,            \* the clock, in seconds
    canCreate,      \* whether os.OpenFile succeeds at present
    bp,             \* _bufferPool and the buffers
    pc,             \* where each caller is in println/output
    call,           \* each caller's current call
    budget,         \* the calls and the steps of other goroutines still allowed,
                    \* and the number of calls started
    acquired,       \* the records of the calls that locked l.mu, in that order
    sent,           \* per severity, the records passed to that sink's Write
    closes,         \* what FileClose recorded
    openFiles,      \* the handles os.OpenFile returned that were not closed
    lastWrite,      \* what the last syncBuffer.Write recorded
    lastFlush       \* what the last Flush, SetLogDir or SetLogName recorded

vars == <<severityLimit, file, maxSize, logDir, logName, mu, disk, console, now,
          canCreate, bp, pc, call, budget, acquired, sent, closes, openFiles,
          lastWrite, lastFlush>>

logger == <<file, maxSize, logDir, logName, disk, closes, openFiles, lastWrite>>

NoWrite == [sev |-> 0, pre |-> 0, len |-> 0, max |-> 0, rotated |-> FALSE,
            created |-> FALSE, wasOpen |-> FALSE, post |-> 0]

NoFlush == [op |-> "none", pending |-> {}, failed |-> {}]

\* A caller's call: k numbers it, gate is the limit the gate read, changed
\* whether the limit was set since, failed whether createFiles failed, last
\* how the gate decided, lost the sinks whose file was nil after their Write.
NoCall == [k |-> 0, sev |-> 0, m |-> 0, buf |-> NoBuf, cur |-> 0, t |-> 0,
           gate |-> 0, changed |-> FALSE, failed |-> FALSE, last |-> "none",
           lost |-> {}]

EmptyPool == [freeList |-> NoBuf, next |-> [b \in Buffers |-> NoBuf],
              data |-> [b \in Buffers |-> <<>>], nAlloc |-> 0]

\* The logger as the zero value of Logger (DefaultLogger), nothing logged yet.
InitLogger ==
    /\ file = [s \in Severities |-> NilSink]
    /\ logDir = ""
    /\ logName = ""
    /\ mu = Free
    /\ disk = <<>>
    /\ console = <<>>
    /\ now = 0
    /\ bp = EmptyPool
    /\ pc = [c \in Callers |-> "idle"]
    /\ call = [c \in Callers |-> NoCall]
    /\ acquired = <<>>
    /\ sent = [s \in Severities |-> <<>>]
    /\ closes = {}
    /\ openFiles = {}
    /\ lastWrite = NoWrite
    /\ lastFlush = NoFlush

Init ==
    /\ InitLogger
    /\ severityLimit = SeverityDebug
    /\ maxSize = 0
    /\ canCreate = TRUE
    /\ budget = [calls |-> MaxCalls, env |-> MaxEnv, started |-> 0]

Crashed == \E c \in Callers : pc[c] = "panic"

\* The context the sink operators work on, for the sink sb.
Ctx(sb) == [sb |-> sb, disk |-> disk, logDir |-> logDir, logName |-> logName,
            maxSize |-> maxSize, closes |-> closes, openFiles |-> openFiles,
            lastWrite |-> lastWrite,
            err |-> FALSE, n |-> 0]

\* The logger's fields and the disk as the context x leaves them.
Store(x) ==
    /\ disk' = x.disk
    /\ logDir' = x.logDir
    /\ logName' = x.logName
    /\ maxSize' = x.maxSize
    /\ closes' = x.closes
    /\ openFiles' = x.openFiles
    /\ lastWrite' = x.lastWrite

\* One more step of a goroutine other than the callers.
EnvStep ==
    /\ ~Crashed
    /\ budget.env > 0
    /\ budget' = [budget EXCEPT !.env = @ - 1]

\* -------------------------------------------------------------- println
\* The severity gate of println and printf.
BelowGateOffByOne(s, limit) == s + 1 < limit

BelowGate(s, limit) == s < limit

\* println(s, ...) up to the call of output: a call below the limit returns at
\* once; any other gets a buffer, formatHeader writes the header into it and
\* fmt.Fprintln the message.
Println(c, s, m) ==
    /\ ~Crashed
    /\ pc[c] = "idle"
    /\ budget.calls > 0
    /\ budget' = [budget EXCEPT !.calls = @ - 1, !.started = @ + 1]
    /\ LET k == budget.started + 1 IN
       IF BelowGate(s, severityLimit)
       THEN /\ call' = [call EXCEPT ![c] = [NoCall EXCEPT !.k = k, !.sev = s, !.m = m,
                                                         !.last = "discarded"]]
            /\ pc' = pc
            /\ bp' = bp
       ELSE LET P == getBuffer(bp) IN
            /\ call' = [call EXCEPT ![c] = [NoCall EXCEPT !.k = k, !.sev = s, !.m = m,
                                                         !.buf = P.got,
                                                         !.gate = severityLimit,
                                                         !.last = "accepted"]]
            /\ bp' = [freeList |-> P.freeList, next |-> P.next, nAlloc |-> P.nAlloc,
                      data |-> [P.data EXCEPT ![P.got] =
                                   @ \o <<<<"h", c, k>>>> \o Msg(c, k, m)]]
            /\ pc' = [pc EXCEPT ![c] = "lock"]
    /\ UNCHANGED <<severityLimit, logger, mu, console, now, canCreate, acquired, sent,
                   lastFlush>>

\* ---------------------------------------------------------------- output
\* sync.Mutex.Lock on l.mu can return.
CanLock(m) == m = Free

\* output: l.mu.Lock(); data := buf.Bytes(); if l.file[s] == nil, createFiles
\* starts (it reads the clock once), else the cascade starts.
Lock(c) ==
    /\ ~Crashed
    /\ pc[c] = "lock"
    /\ CanLock(mu)
    /\ mu' = c
    /\ IF ~file[call[c].sev].alloc
       THEN /\ pc' = [pc EXCEPT ![c] = "create"]
            /\ call' = [call EXCEPT ![c].cur = call[c].sev, ![c].t = now]
       ELSE /\ pc' = [pc EXCEPT ![c] = "write"]
            /\ call' = [call EXCEPT ![c].cur = call[c].sev]
    /\ acquired' = Append(acquired, <<c, call[c].k, call[c].sev>>)
    /\ UNCHANGED <<severityLimit, logger, console, now, canCreate, bp, budget, sent,
                   lastFlush>>

\* The loop test of createFiles: s >= l.severityLimit && l.file[s] == nil.
CreateMore(s, limit, f) == s >= limit /\ ~f[s].alloc

\* One iteration of the loop of createFiles.  When rotateFile fails, createFiles
\* returns the error and output returns, l.mu still locked.
CreateFile(c) ==
    /\ ~Crashed
    /\ pc[c] = "create"
    /\ IF CreateMore(call[c].cur, severityLimit, file)
       THEN LET x == rotateFile(Ctx(NewSink(call[c].cur)), call[c].t, canCreate) IN
            /\ Store(x)
            /\ IF x.err
               THEN /\ file' = file
                    /\ pc' = [pc EXCEPT ![c] = "idle"]
                    /\ call' = [call EXCEPT ![c].failed = TRUE]
               ELSE /\ file' = [file EXCEPT ![call[c].cur] = x.sb]
                    /\ pc' = pc
                    /\ call' = [call EXCEPT ![c].cur = @ - 1]
       ELSE /\ pc' = [pc EXCEPT ![c] = "write"]
            /\ call' = [call EXCEPT ![c].cur = call[c].sev]
            /\ UNCHANGED logger
    /\ UNCHANGED <<severityLimit, mu, console, now, canCreate, bp, budget, acquired, sent,
                   lastFlush>>

\* One case of the switch of output: l.file[cur].Write(data), falling through
\* to the next lower severity; the Debug case also writes to os.Stderr.  A
\* method call on a nil l.file[cur] panics.
WriteSink(c) ==
    /\ ~Crashed
    /\ pc[c] = "write"
    /\ LET k == call[c].cur
           data == bp.data[call[c].buf]
       IN IF ~file[k].alloc
          THEN /\ pc' = [pc EXCEPT ![c] = "panic"]
               /\ UNCHANGED <<logger, console, call, sent>>
          ELSE LET x == Write(Ctx(file[k]), data, now, canCreate)
                   lost == IF x.sb.file = NoFile THEN {k} ELSE {}
               IN
               /\ Store(x)
               /\ file' = [file EXCEPT ![k] = x.sb]
               /\ sent' = [sent EXCEPT ![k] = Append(@, <<c, call[c].k, call[c].sev>>)]
               /\ IF k = SeverityDebug
                  THEN /\ console' = console \o data
                       /\ pc' = [pc EXCEPT ![c] = "unlock"]
                       /\ call' = [call EXCEPT ![c].lost = @ \cup lost]
                  ELSE /\ console' = console
                       /\ pc' = pc
                       /\ call' = [call EXCEPT ![c].cur = k - 1,
                                               ![c].lost = @ \cup lost]
    /\ UNCHANGED <<severityLimit, mu, now, canCreate, bp, budget, acquired,
                   lastFlush>>

\* output: l.mu.Unlock(); _bufferPool.putBuffer(buf).  A record of severity
\* Error goes on to l.Flush().
Release(c) ==
    /\ ~Crashed
    /\ pc[c] = "unlock"
    /\ mu' = Free
    /\ bp' = putBuffer(bp, call[c].buf)
    /\ pc' = [pc EXCEPT ![c] = IF call[c].sev >= SeverityError THEN "flush" ELSE "idle"]
    /\ UNCHANGED <<severityLimit, logger, console, now, canCreate, call, budget, acquired, sent,
                   lastFlush>>

\* flushAll: from Error down to Debug, Flush and Sync every sink there is.
RECURSIVE flushFromUntilError(_, _)
flushFromUntilError(s, st) ==
    IF s < SeverityDebug THEN st
    ELSE IF ~st.file[s].alloc THEN flushFromUntilError(s - 1, st)
    ELSE LET x == FlushSync([sb |-> st.file[s], disk |-> st.disk, err |-> FALSE])
         IN IF x.err THEN [st EXCEPT !.failed = @ \cup {s}]
            ELSE flushFromUntilError(s - 1, [file |-> [st.file EXCEPT ![s] = x.sb],
                                            disk |-> x.disk, failed |-> st.failed])

RECURSIVE flushFrom(_, _)
flushFrom(s, st) ==
    IF s < SeverityDebug THEN st
    ELSE IF ~st.file[s].alloc THEN flushFrom(s - 1, st)
    ELSE LET x == FlushSync([sb |-> st.file[s], disk |-> st.disk, err |-> FALSE])
         IN flushFrom(s - 1, [file |-> [st.file EXCEPT ![s] = x.sb], disk |-> x.disk,
                              failed |-> IF x.err THEN st.failed \cup {s} ELSE st.failed])

flushAll == flushFrom(SeverityError, [file |-> file, disk |-> disk, failed |-> {}])

\* The sinks that hold bytes in their Writer.
Pending == {s \in Severities : file[s].alloc /\ Len(file[s].wbuf) > 0}

\* What a call that reaches flushAll, or returns before it, records.
Flushed(op) == [op |-> op, pending |-> Pending,
                failed |-> IF op = "same" THEN {} ELSE flushAll.failed]

\* output, for a record of severity Error: l.Flush() once it has the lock.
FlushCall(c) ==
    /\ ~Crashed
    /\ pc[c] = "flush"
    /\ CanLock(mu)
    /\ file' = flushAll.file
    /\ disk' = flushAll.disk
    /\ lastFlush' = Flushed("flush")
    /\ pc' = [pc EXCEPT ![c] = "idle"]
    /\ UNCHANGED <<severityLimit, maxSize, logDir, logName, mu, console, now,
                   canCreate, bp, call, budget, acquired, sent, closes, openFiles,
                   lastWrite>>

\* ------------------------------------------------- the other goroutines
\* Logger.Flush, as the flush daemon and any caller run it.
Flush ==
    /\ EnvStep
    /\ CanLock(mu)
    /\ file' = flushAll.file
    /\ disk' = flushAll.disk
    /\ lastFlush' = Flushed("flush")
    /\ UNCHANGED <<severityLimit, maxSize, logDir, logName, mu, console, now,
                   canCreate, bp, pc, call, acquired, sent, closes, openFiles,
                   lastWrite>>

\* Logger.resetFiles: every slot becomes nil.
resetFiles == [s \in Severities |-> NilSink]

\* The test of SetLogDir and SetLogName: the value is the one in use.
SameValueNever(new, cur) == FALSE

SameValue(new, cur) == new = cur

\* Logger.SetLogDir(dir): nothing when dir is the directory in use.
SetLogDir(dir) ==
    /\ EnvStep
    /\ CanLock(mu)
    /\ IF SameValue(convDirAbs(dir), logDir)
       THEN /\ UNCHANGED <<file, disk, logDir>>
            /\ lastFlush' = Flushed("same")
       ELSE /\ disk' = flushAll.disk
            /\ file' = resetFiles
            /\ logDir' = convDirAbs(dir)
            /\ lastFlush' = Flushed("reset")
    /\ UNCHANGED <<severityLimit, maxSize, logName, mu, console, now, canCreate,
                   bp, pc, call, acquired, sent, closes, openFiles,
                   lastWrite>>

\* Logger.SetLogName(name): nothing when name is the name in use.
SetLogName(name) ==
    /\ EnvStep
    /\ CanLock(mu)
    /\ IF SameValue(name, logName)
       THEN /\ UNCHANGED <<file, disk, logName>>
            /\ lastFlush' = Flushed("same")
       ELSE /\ disk' = flushAll.disk
            /\ file' = resetFiles
            /\ logName' = name
            /\ lastFlush' = Flushed("reset")
    /\ UNCHANGED <<severityLimit, maxSize, logDir, mu, console, now, canCreate,
                   bp, pc, call, acquired, sent, closes, openFiles,
                   lastWrite>>

\* Logger.SetSeverityLimit(s): an atomic store, l.mu not taken.  changed marks
\* the calls that were past the gate when the limit changed.
SetSeverityLimit(s) ==
    /\ EnvStep
    /\ s # severityLimit
    /\ severityLimit' = s
    /\ call' = [c \in Callers |->
                   IF pc[c] = "idle" THEN call[c] ELSE [call[c] EXCEPT !.changed = TRUE]]
    /\ UNCHANGED <<logger, mu, console, now, canCreate, bp, pc, acquired, sent,
                   lastFlush>>

\* Logger.SetMaxSize(z): a plain store, l.mu not taken.
SetMaxSize(z) ==
    /\ EnvStep
    /\ z # maxSize
    /\ maxSize' = z
    /\ UNCHANGED <<severityLimit, file, logDir, logName, mu, disk, console, now,
                   canCreate, bp, pc, call, acquired, sent, closes, openFiles,
                   lastWrite,
                   lastFlush>>

\* The clock reaches the next second.
Tick ==
    /\ EnvStep
    /\ now' = now + 1
    /\ UNCHANGED <<severityLimit, logger, mu, console, canCreate, bp, pc, call, acquired, sent,
                   lastFlush>>

\* The log directory stops or starts being writable.
SetWritable(b) ==
    /\ EnvStep
    /\ b # canCreate
    /\ canCreate' = b
    /\ UNCHANGED <<severityLimit, logger, mu, console, now, bp, pc, call, acquired, sent,
                   lastFlush>>

\* ----------------------------------------------------------- specification
Next ==
    \/ \E c \in Callers, s \in Severities, m \in MsgLens : Println(c, s, m)
    \/ \E c \in Callers : Lock(c)
    \/ \E c \in Callers : CreateFile(c)
    \/ \E c \in Callers : WriteSink(c)
    \/ \E c \in Callers : Release(c)
    \/ \E c \in Callers : FlushCall(c)
    \/ Flush
    \/ \E d \in Dirs : SetLogDir(d)
    \/ \E n \in LogNames : SetLogName(n)
    \/ \E s \in Severities : SetSeverityLimit(s)
    \/ \E z \in MaxSizes : SetMaxSize(z)
    \/ Tick
    \/ \E b \in BOOLEAN : SetWritable(b)

Spec == Init /\ [][Next]_vars

\* Callers log at every severity while the limit is set and set again; files
\* are always created.  The logger starts with any limit set beforehand.
InitGate ==
    /\ InitLogger
    /\ severityLimit \in Severities
    /\ maxSize = 0
    /\ canCreate = TRUE
    /\ budget = [calls |-> MaxCalls, env |-> MaxEnv, started |-> 0]

NextGate ==
    \/ \E s \in Severities : Println(1, s, 1)
    \/ Lock(1)
    \/ CreateFile(1)
    \/ WriteSink(1)
    \/ Release(1)
    \/ FlushCall(1)
    \/ \E s \in Severities : SetSeverityLimit(s)

SpecGate == InitGate /\ [][NextGate]_vars

\* One goroutine logs at Debug and Info, the limit stays Debug; the maximal
\* size was set beforehand, the directory stops and starts being writable, the
\* daemon flushes and the clock ticks.
InitRotate ==
    /\ InitLogger
    /\ severityLimit = SeverityDebug
    /\ maxSize \in MaxSizes
    /\ canCreate = TRUE
    /\ budget = [calls |-> MaxCalls, env |-> MaxEnv, started |-> 0]

NextRotate ==
    \/ \E s \in {SeverityDebug, SeverityInfo}, m \in MsgLens : Println(1, s, m)
    \/ Lock(1)
    \/ CreateFile(1)
    \/ WriteSink(1)
    \/ Release(1)
    \/ Flush
    \/ Tick
    \/ \E b \in BOOLEAN : SetWritable(b)

SpecRotate == InitRotate /\ [][NextRotate]_vars

\* Every caller issues one write at severity Error, the limit is Debug and no
\* file fails to be created; the maximal size was set beforehand.
InitError ==
    /\ InitLogger
    /\ severityLimit = SeverityDebug
    /\ maxSize \in MaxSizes
    /\ canCreate = TRUE
    /\ budget = [calls |-> NCallers, env |-> MaxEnv, started |-> 0]

ErrorOnce(c, m) == call[c].k = 0 /\ Println(c, SeverityError, m)

NextError ==
    \/ \E c \in Callers, m \in MsgLens : ErrorOnce(c, m)
    \/ \E c \in Callers : Lock(c)
    \/ \E c \in Callers : CreateFile(c)
    \/ \E c \in Callers : WriteSink(c)
    \/ \E c \in Callers : Release(c)
    \/ \E c \in Callers : FlushCall(c)

SpecError == InitError /\ [][NextError]_vars

\* One goroutine logs at Debug and Info while the directory and the name are
\* set, to the value in use or to another.
NextConfig ==
    \/ \E s \in {SeverityDebug, SeverityInfo} : Println(1, s, 1)
    \/ Lock(1)
    \/ CreateFile(1)
    \/ WriteSink(1)
    \/ Release(1)
    \/ \E d \in Dirs : SetLogDir(d)
    \/ \E n \in LogNames : SetLogName(n)

SpecConfig == Init /\ [][NextConfig]_vars

\* One goroutine logs at Error and another at Debug, with a maximal size that
\* the second record of a file reaches, while Flush and SetLogDir run and the
\* directory stops and starts being writable.
InitFlush ==
    /\ InitLogger
    /\ severityLimit = SeverityDebug
    /\ maxSize = BannerLen + 3
    /\ canCreate = TRUE
    /\ budget = [calls |-> MaxCalls, env |-> MaxEnv, started |-> 0]

NextFlush ==
    \/ Println(1, SeverityError, 1)
    \/ Println(2, SeverityDebug, 1)
    \/ \E c \in {1, 2} : Lock(c)
    \/ \E c \in {1, 2} : CreateFile(c)
    \/ \E c \in {1, 2} : WriteSink(c)
    \/ \E c \in {1, 2} : Release(c)
    \/ FlushCall(1)
    \/ Flush
    \/ \E d \in Dirs : SetLogDir(d)
    \/ \E b \in BOOLEAN : SetWritable(b)

SpecFlush == InitFlush /\ [][NextFlush]_vars

\* The maximal size is the banner plus one record of MaxMsg message bytes, the
\* limit is Debug; one goroutine writes two such records at Info, one after
\* the other, while the clock ticks and the daemon flushes.
InitScenario ==
    /\ InitLogger
    /\ severityLimit = SeverityDebug
    /\ maxSize = BannerLen + 1 + MaxMsg
    /\ canCreate = TRUE
    /\ budget = [calls |-> 2, env |-> MaxEnv, started |-> 0]

NextScenario ==
    \/ Println(1, SeverityInfo, MaxMsg)
    \/ Lock(1)
    \/ CreateFile(1)
    \/ WriteSink(1)
    \/ Release(1)
    \/ Flush
    \/ Tick

SpecScenario == InitScenario /\ [][NextScenario]_vars

\* ------------------------------------------------------- the pool alone
\* The buffers linked from b on, at most fuel of them; the free list.
RECURSIVE Linked(_, _, _)
Linked(P, b, fuel) ==
    IF b = NoBuf \/ fuel = 0 THEN <<>> ELSE <<b>> \o Linked(P, P.next[b], fuel - 1)

FreeList(P) == Linked(P, P.freeList, Cardinality(Buffers) + 1)

FreeSet(P) == {FreeList(P)[i] : i \in 1 .. Len(FreeList(P))}

\* Caller c is between getBuffer's critical section and its putBuffer with a
\* buffer in hand.
Holds(c, b) == pc[c] \in {"got", "hold", "filled"} /\ call[c].buf = b /\ b # NoBuf

\* new(buffer): memory that is neither in the free list nor in a caller's
\* hand (a buffer that was dropped is garbage and its memory may come back).
newBuffer ==
    CHOOSE b \in Buffers : b \notin FreeSet(bp) /\ \A c \in Callers : ~Holds(c, b)

\* getBuffer under bp.mtx: b := bp.freeList; if b != nil, bp.freeList = b.next.
takeHeadKeepList(P) == P

takeHead(P) ==
    IF P.freeList # NoBuf THEN [P EXCEPT !.freeList = P.next[P.freeList]] ELSE P

\* What the pool actions leave alone.
notPool == <<severityLimit, logger, mu, console, now, canCreate, budget, acquired,
             sent, lastFlush>>

\* getBuffer, first part: the critical section.  b stays linked to its next.
PoolGet(c) ==
    /\ pc[c] = "idle"
    /\ bp' = takeHead(bp)
    /\ call' = [call EXCEPT ![c] =
                   [NoCall EXCEPT !.buf = bp.freeList,
                                  !.last = IF bp.freeList = NoBuf THEN "new"
                                           ELSE "recycled"]]
    /\ pc' = [pc EXCEPT ![c] = "got"]
    /\ UNCHANGED notPool

\* getBuffer, second part, outside bp.mtx: new(buffer) when b is nil, else
\* b.next = nil and b.Reset(); getBuffer returns.
PoolClear(c) ==
    /\ pc[c] = "got"
    /\ LET b == IF call[c].buf = NoBuf THEN newBuffer ELSE call[c].buf IN
       /\ bp' = [bp EXCEPT !.next[b] = NoBuf, !.data = Reset(bp.data, b)]
       /\ call' = [call EXCEPT ![c].buf = b]
    /\ pc' = [pc EXCEPT ![c] = "hold"]
    /\ UNCHANGED notPool

\* The caller writes n bytes into its buffer.
PoolUse(c, n) ==
    /\ pc[c] = "hold"
    /\ bp' = [bp EXCEPT !.data[call[c].buf] = [i \in 1 .. n |-> <<"m", 0, 0>>]]
    /\ pc' = [pc EXCEPT ![c] = "filled"]
    /\ UNCHANGED <<notPool, call>>

\* putBuffer(b), once for the buffer the caller holds.
PoolPut(c) ==
    /\ pc[c] = "filled"
    /\ bp' = putBuffer(bp, call[c].buf)
    /\ pc' = [pc EXCEPT ![c] = "idle"]
    /\ UNCHANGED <<notPool, call>>

PoolStep(c) ==
    \/ PoolGet(c)
    \/ PoolClear(c)
    \/ \E n \in {PoolCap - 1, PoolCap} : PoolUse(c, n)
    \/ PoolPut(c)

NextPool == \E c \in Callers : PoolStep(c)

\* Every caller keeps acquiring and releasing buffers.
SpecPool == Init /\ [][NextPool]_vars /\ \A c \in Callers : WF_vars(PoolStep(c))

\* ================================================================ claims
\* The record of caller c's current call, and its header byte.
Rec(c) == <<c, call[c].k, call[c].sev>>

Hdr(c) == <<"h", c, call[c].k>>

InSeq(e, seq) == \E i \in 1 .. Len(seq) : seq[i] = e

\* The call of c passed the gate and is over: output returned or panicked.
Ended(c) == call[c].last = "accepted" /\ pc[c] \in {"idle", "panic"}

\* The record of c went to the sink of every severity up to its own, to no
\* other sink, and to the console.
Cascaded(c) ==
    /\ \A k \in Severities : InSeq(Rec(c), sent[k]) <=> k <= call[c].sev
    /\ InSeq(Hdr(c), console)

\* C1: whatever the limit, once a call that passed the gate is over (and no
\* file failed to be created in it) its record has been written to the sink of
\* every severity <= s and to the console, and to no sink of a higher severity.
C1_AcceptedIsCascaded ==
    \A c \in Callers : (Ended(c) /\ ~call[c].failed) => Cascaded(c)

\* The step is a leveled write of c that the gate discards.
Discarded(c) ==
    /\ pc[c] = "idle"
    /\ call'[c].k # call[c].k
    /\ call'[c].sev < severityLimit

\* C2: a leveled write below the limit the gate reads changes nothing: no
\* buffer is taken from the pool, l.mu is not locked, no slot is populated,
\* nothing is written to a sink or to the console; the call is over at once.
C2_BelowLimitNoEffect ==
    [][\A c \in Callers : Discarded(c) =>
            /\ pc' = pc
            /\ call'[c].buf = NoBuf
            /\ UNCHANGED <<severityLimit, file, maxSize, logDir, logName, mu, disk,
                           console, bp, acquired, sent, closes, openFiles,
                   lastWrite>>]_vars

\* A write below the limit was discarded.
C2_Witness ==
    \E c \in Callers : call[c].last = "discarded" /\ call[c].sev < severityLimit

\* C3: no leveled write crashes the caller.
C3_NoCrash == \A c \in Callers : pc[c] # "panic"

\* A populated slot i has every slot j with limit <= j <= i populated.
NoGap ==
    \A i \in Severities, j \in Severities :
        (file[i].alloc /\ severityLimit <= j /\ j <= i) => file[j].alloc

\* C4: whenever no call is inside createFiles or the cascade, a populated
\* slot i has every slot j with limit <= j <= i populated.
C4_NoGap == (\A c \in Callers : pc[c] \notin {"create", "write"}) => NoGap

\* C5: a call that locked l.mu has unlocked it when it returns.
C5_LockReleasedOnReturn == \A c \in Callers : pc[c] = "idle" => mu # c

\* C6: a write that passed the gate when the limit was Debug, and in which no
\* file failed to be created, does not crash, whatever SetSeverityLimit does
\* while it runs.
C6_LimitRaceHarmless ==
    \A c \in Callers :
        (call[c].last = "accepted" /\ call[c].gate = SeverityDebug /\ ~call[c].failed)
            => pc[c] # "panic"

\* A syncBuffer.Write has run; lastWrite describes the latest one.
Wrote == lastWrite.max > 0

\* The latest Write rotated exactly when nbytes + len(p) >= maxFileSize held
\* before it, and after rotating into a newly created file nbytes is the
\* banner's length plus len(p).
RotatesExactly ==
    /\ lastWrite.rotated <=> lastWrite.pre + lastWrite.len >= lastWrite.max
    /\ (lastWrite.rotated /\ lastWrite.created)
           => lastWrite.post = BannerLen + lastWrite.len

C10_NothingBufferedAtClose == \A r \in closes : r.accepted = r.infile

\* A file that took records after its banner was closed.
C10_Witness == \E r \in closes : Len(r.accepted) > BannerLen

\* Every caller has issued its write and has returned.
AllDone == \A c \in Callers : call[c].k # 0 /\ pc[c] = "idle"

\* The bytes in the files of severity k, in the order of the files' times.
RECURSIVE FilesUpTo(_, _)
FilesUpTo(k, t) ==
    IF t < 0 THEN <<>>
    ELSE FilesUpTo(k, t - 1) \o
         (IF FileName(logDir, logName, k, t) \in DOMAIN disk
          THEN disk[FileName(logDir, logName, k, t)] ELSE <<>>)

\* seq holds exactly NCallers records, one of every caller, each the header
\* and the message bytes of that call next to each other, and besides them
\* only banners.
IsHeader(b) == b[1] = "h"

IsRecordAt(seq, i, c) ==
    /\ i + call[c].m <= Len(seq)
    /\ seq[i] = Hdr(c)
    /\ \A j \in 1 .. call[c].m : seq[i + j] = <<"m", c, call[c].k>>

WholeRecords(seq) ==
    /\ Len(SelectSeq(seq, IsHeader)) = NCallers
    /\ \A c \in Callers : \E i \in 1 .. Len(seq) : IsRecordAt(seq, i, c)
    /\ \A i \in 1 .. Len(seq) :
           \/ seq[i] = <<"B", 0, 0>>
           \/ \E c \in Callers, j \in 1 .. i :
                  IsRecordAt(seq, j, c) /\ i <= j + call[c].m

\* C7: when NCallers concurrent callers have each issued one write at severity
\* Error (limit Debug, every file created) and all have returned, the files of
\* each severity and the console each hold exactly NCallers records, each one
\* the header and the message of one call, contiguous.
C7_EverySinkHoldsEveryRecord ==
    AllDone => /\ \A k \in Severities : WholeRecords(FilesUpTo(k, now))
               /\ WholeRecords(console)

\* All calls are over and the call that started second locked l.mu first.
C7_Witness == AllDone /\ acquired[1][2] # 1

\* Record r has severity k or more; record r went to the sink of severity k.
AtLeast(k, r) == r[3] >= k

InSent(k, r) == InSeq(r, sent[k])

\* C8: whenever no call is inside the cascade, every sink's records are in the
\* order in which their calls locked l.mu, and the sink of severity k holds
\* exactly the records of severity >= k of the Debug sink, in its order.
C8_SinksAreSubsequences ==
    (\A c \in Callers : pc[c] # "write") =>
        \A k \in Severities :
            /\ sent[k] = SelectSeq(acquired, LAMBDA r : InSent(k, r))
            /\ sent[k] = SelectSeq(sent[SeverityDebug], LAMBDA r : AtLeast(k, r))

\* The handle the sink in slot s holds through its Writer.
SinkHandle(s) == <<file[s].wr, file[s].base>>

\* C13: after SetLogDir/SetLogName cleared the slots no file opened by a
\* cleared sink remains open: every open handle is the one of a sink that is
\* in a slot.
C13_ResetClosesFiles ==
    \A h \in openFiles :
        \E s \in Severities : file[s].alloc /\ file[s].wrOpen /\ SinkHandle(s) = h

\* C19: every sink in a slot has a file that is not nil and open, and its
\* Writer wraps that file.
C19_SinkOwnsOpenFile ==
    \A s \in Severities :
        file[s].alloc => /\ file[s].file # NoFile
                         /\ file[s].wr = file[s].file
                         /\ file[s].wrOpen
                         /\ SinkHandle(s) \in openFiles

\* C20: a step in which a sink's Write rotated from an open file to a newly
\* opened one leaves the sink on a file of another name.
C20_RotationChangesFile ==
    [][\A s \in Severities :
          (/\ file[s].alloc /\ file[s].wrOpen
           /\ file'[s].alloc /\ file'[s].wrOpen
           /\ SinkHandle(s)' # SinkHandle(s))
              => file'[s].wr # file[s].wr]_vars

\* C18: a SetLogDir or SetLogName whose value is the one in use changes
\* nothing of the logger: the slots, the sinks in them (file, buffered bytes,
\* byte count), the files and the open handles, the directory, the name, the
\* maximal size and the limit.
C18_SameValueNoOp ==
    [][(\/ \E d \in Dirs : convDirAbs(d) = logDir /\ SetLogDir(d)
        \/ \E n \in LogNames : n = logName /\ SetLogName(n))
          => UNCHANGED <<severityLimit, file, maxSize, logDir, logName, mu, disk,
                         console, closes, openFiles>>]_vars

\* The value in use was set again while a sink held buffered bytes.
C18_Witness == lastFlush.op = "same" /\ lastFlush.pending # {}

\* The write of c at severity Error passed the gate and has returned, and no
\* file failed to be created for it.
Returned(c) ==
    /\ call[c].last = "accepted"
    /\ call[c].sev = SeverityError
    /\ pc[c] = "idle"
    /\ ~call[c].failed

\* The record of c is in a file of the sink of severity k.
InFile(c, k) ==
    \E name \in DOMAIN disk :
        name[3] = k /\ \E i \in 1 .. Len(disk[name]) : IsRecordAt(disk[name], i, c)

C12_FlushEverySink ==
    [][(Flush \/ \E c \in Callers : FlushCall(c)) =>
         /\ mu = Free /\ mu' = Free
         /\ \A s \in Severities :
               IF ~file[s].alloc THEN file'[s] = file[s]
               ELSE (file[s].wrOpen /\ ~file[s].werr) =>
                        /\ file'[s].wbuf = <<>>
                        /\ disk'[file[s].wr] = disk[file[s].wr] \o file[s].wbuf]_vars

\* A Flush ran in which the flush of a sink failed and a sink of lower
\* severity had buffered bytes that it wrote to its file.
C12_Witness ==
    /\ lastFlush.op = "flush"
    /\ \E s \in lastFlush.failed :
           \E k \in lastFlush.pending : k < s /\ k \notin lastFlush.failed

\* C14: bytes that a sink's Writer holds can still be flushed by the daemon:
\* while some sink holds buffered bytes, l.mu is free or held by a call that
\* is still running, never by a call that has returned.
C14_DaemonCanFlush ==
    \A c \in Callers : (Pending # {} /\ mu = c) => pc[c] # "idle"

\* The two writes of the scenario have returned.
BothWritten == budget.calls = 0 /\ call[1].k = 2 /\ pc[1] = "idle"

IsBanner(b) == b[1] = "B"

\* The bytes accepted for the file that the sink of severity k is on: those in
\* the file and those in the Writer.
Current(k) == disk[file[k].file] \o file[k].wbuf

\* The number of records in seq, and of banner bytes in the files of tag k.
Records(seq) == Len(SelectSeq(seq, IsHeader))

RECURSIVE BannerBytes(_, _)
BannerBytes(k, names) ==
    IF names = {} THEN 0
    ELSE LET n == CHOOSE x \in names : TRUE
         IN (IF n[3] = k THEN Len(SelectSeq(disk[n], IsBanner)) ELSE 0)
            + BannerBytes(k, names \ {n})

\* C17 as stated: after the two Info records the Info sink has rotated once
\* (two banners written) and its current file holds one record, while the
\* Debug sink has not rotated and its file holds both records.
C17_InfoRotatesDebugAccumulates ==
    BothWritten =>
        /\ BannerBytes(SeverityInfo, DOMAIN disk) = 2 * BannerLen
        /\ Records(Current(SeverityInfo)) = 1
        /\ BannerBytes(SeverityDebug, DOMAIN disk) = BannerLen
        /\ Records(Current(SeverityDebug)) = 2

\* C17, amended: each of the two writes rotates the Info sink and the Debug
\* sink alike (the banner plus one record reaches the maximal size at the
\* first write already), so either sink wrote three banners, counts the banner
\* plus one record and has accepted the banner and the second record since
\* its last rotation; its current file holds the second record, and no other
\* record but the first, which it holds when both rotations opened the file
\* of the same name.
C17_BothSinksRotateTwice ==
    BothWritten =>
        \A k \in {SeverityDebug, SeverityInfo} :
            /\ BannerBytes(k, DOMAIN disk) = 3 * BannerLen
            /\ file[k].nbytes = BannerLen + 1 + MaxMsg
            /\ file[k].acc = Banner \o <<<<"h", 1, 2>>>> \o Msg(1, 2, MaxMsg)
            /\ InSeq(<<"h", 1, 2>>, Current(k))
            /\ Records(Current(k)) = IF InSeq(<<"h", 1, 1>>, Current(k)) THEN 2 ELSE 1

\* Both records are written, the clock ticked between them, and the current
\* file of the Info sink holds one record.
C17_Witness ==
    /\ BothWritten
    /\ Records(Current(SeverityInfo)) = 1
    /\ Records(Current(SeverityDebug)) = 1

\* C15: no buffer is in the hand of two callers, no buffer in a caller's hand
\* is in the free list, and no buffer is in the free list twice.
C15_OneOwner ==
    /\ \A c \in Callers, d \in Callers, b \in Buffers :
           (Holds(c, b) /\ Holds(d, b)) => c = d
    /\ \A c \in Callers, b \in Buffers : Holds(c, b) => b \notin FreeSet(bp)
    /\ Cardinality(FreeSet(bp)) = Len(FreeList(bp))
    /\ Len(FreeList(bp)) <= Cardinality(Buffers)

\* Two callers are inside getBuffer at once, each with a buffer it took from
\* the free list and has not cleared yet.
C15_Witness ==
    \E c \in Callers, d \in Callers :
        /\ c # d
        /\ pc[c] = "got" /\ call[c].last = "recycled"
        /\ pc[d] = "got" /\ call[d].last = "recycled"

\* A buffer of PoolCap bytes or more is not in the free list, and the buffer
\* getBuffer returned is empty and has a nil link.
PoolKeepsSmallOnly ==
    /\ \A b \in FreeSet(bp) : Len(bp.data[b]) < PoolCap
    /\ \A c \in Callers :
           pc[c] = "hold" => /\ bp.data[call[c].buf] = <<>>
                             /\ bp.next[call[c].buf] = NoBuf

\* C16 as stated: a buffer released with PoolCap bytes or more is never
\* returned again, a returned buffer is empty with a nil link, and a buffer
\* that is in the free list is eventually returned by a getBuffer.
C16_ReleasedIsReturned ==
    /\ []PoolKeepsSmallOnly
    /\ \A b \in Buffers :
           (b \in FreeSet(bp)) ~> (\E c \in Callers : Holds(c, b))

\* C16, amended: a buffer released with PoolCap bytes or more is never
\* returned again and a returned buffer is empty with a nil link; a buffer
\* released with fewer bytes becomes the head of the free list, and getBuffer
\* takes the head of the list when there is one.
C16_ReleasedIsHead ==
    /\ []PoolKeepsSmallOnly
    /\ [][\A c \in Callers :
            /\ (pc[c] = "filled" /\ pc'[c] = "idle") =>
                   IF Len(bp.data[call[c].buf]) < PoolCap
                   THEN bp'.freeList = call[c].buf
                   ELSE call[c].buf \notin FreeSet(bp')
            /\ (pc[c] = "idle" /\ pc'[c] = "got" /\ bp.freeList # NoBuf) =>
                   call'[c].buf = bp.freeList]_vars

\* A caller got a recycled buffer back, empty, while a buffer that was
\* released with PoolCap bytes lies dropped.
C16_Witness ==
    /\ \E c \in Callers : pc[c] = "hold" /\ call[c].last = "recycled"
    /\ \E b \in Buffers :
           /\ Len(bp.data[b]) >= PoolCap
           /\ \A c \in Callers : ~Holds(c, b)

====
